---- MODULE Spec2Model ----
(***************************************************************************)
(* Selectarr: smart collections for a Jellyfin server.                     *)
(*                                                                         *)
(* The module models                                                       *)
(*   - query_parser.py: parse_query_conditions, matches_condition and      *)
(*     matches_all_conditions, as operators over Python values;            *)
(*   - jellyfin_client.py: the remote calls, against a model of the        *)
(*     server's collections and library;                                   *)
(*   - collection_manager.py: process_collections, one action per remote   *)
(*     call it makes.                                                      *)
(*                                                                         *)
(* Python strings are sequences of code points, so that lower(), upper(),  *)
(* int(), ordering and substring tests are computed and not assumed.       *)
(***************************************************************************)
EXTENDS Integers, Sequences, FiniteSets, TLC

\* ------------------------------------------------------------------------
\* Python strings
\* ------------------------------------------------------------------------

\* str.lower() on one code point (ASCII letters)
LowerCh(c) == IF c \in 65..90 THEN c + 32 ELSE c

\* str.upper() on one code point (ASCII letters)
UpperCh(c) == IF c \in 97..122 THEN c - 32 ELSE c

\* the string as it is, in the case it has
Verbatim(s) == s

\* str.lower()
Lower(s) == [i \in 1..Len(s) |-> LowerCh(s[i])]

\* str.upper()
Upper(s) == [i \in 1..Len(s) |-> UpperCh(s[i])]

\* the containment the other way round: hay in needle
ContainedIn(needle, hay) ==
  \E i \in 0..(Len(needle) - Len(hay)) :
     SubSeq(needle, i + 1, i + Len(hay)) = hay

\* Python's "needle in hay" on strings
Contains(needle, hay) ==
  \E i \in 0..(Len(hay) - Len(needle)) :
     SubSeq(hay, i + 1, i + Len(needle)) = needle

\* Python's a < b on strings: lexicographic by code point
StrLt(a, b) ==
  \E k \in 1..(Len(a) + 1) :
     /\ k <= Len(b)
     /\ \A j \in 1..(k - 1) : a[j] = b[j]
     /\ (k = Len(a) + 1 \/ a[k] < b[k])

IsDigit(c) == c \in 48..57
IsAlpha(c) == c \in 65..90 \/ c \in 97..122
IsSpace(c) == c \in {9, 10, 11, 12, 13, 32}

\* str.strip()
RECURSIVE LStrip(_)
LStrip(s) == IF s # <<>> /\ IsSpace(Head(s)) THEN LStrip(Tail(s)) ELSE s
RECURSIVE RStrip(_)
RStrip(s) ==
  IF s # <<>> /\ IsSpace(s[Len(s)]) THEN RStrip(SubSeq(s, 1, Len(s) - 1)) ELSE s
Strip(s) == RStrip(LStrip(s))

\* the decimal digits int() accepts: digits, single underscores between them
IsDecimal(s) ==
  /\ s # <<>>
  /\ IsDigit(s[1]) /\ IsDigit(s[Len(s)])
  /\ \A i \in 1..Len(s) : IsDigit(s[i]) \/ s[i] = 95
  /\ \A i \in 1..(Len(s) - 1) : ~(s[i] = 95 /\ s[i + 1] = 95)

RECURSIVE DecimalValue(_, _)
DecimalValue(s, acc) ==
  IF s = <<>> THEN acc
  ELSE IF Head(s) = 95 THEN DecimalValue(Tail(s), acc)
  ELSE DecimalValue(Tail(s), 10 * acc + (Head(s) - 48))

\* int(s) for a string s: [ok |-> FALSE] stands for ValueError
ParseInt(s) ==
  LET t    == Strip(s)
      sign == IF t # <<>> /\ t[1] \in {43, 45} THEN t[1] ELSE 0
      body == IF sign = 0 THEN t ELSE Tail(t)
  IN  IF IsDecimal(body)
      THEN [ok |-> TRUE,
            n  |-> IF sign = 45 THEN 0 - DecimalValue(body, 0)
                   ELSE DecimalValue(body, 0)]
      ELSE [ok |-> FALSE, n |-> 0]

\* str(n) for an integer n
RECURSIVE NatToStr(_)
NatToStr(n) ==
  IF n < 10 THEN <<48 + n>> ELSE Append(NatToStr(n \div 10), 48 + (n % 10))
IntToStr(n) == IF n < 0 THEN <<45>> \o NatToStr(0 - n) ELSE NatToStr(n)

\* ------------------------------------------------------------------------
\* Python values: str, int, bool, None
\* ------------------------------------------------------------------------

PyStr(s)  == [t |-> "str", s |-> s]
PyInt(n)  == [t |-> "int", n |-> n]
PyBool(b) == [t |-> "bool", b |-> b]
PyNone    == [t |-> "none"]

\* 'True'
strTrue == <<84, 114, 117, 101>>
\* 'False'
strFalse == <<70, 97, 108, 115, 101>>
\* 'None'
strNone == <<78, 111, 110, 101>>

\* bool is a subclass of int
IsNum(v) == v.t \in {"int", "bool"}
Num(v)   == IF v.t = "int" THEN v.n ELSE IF v.b THEN 1 ELSE 0

\* a == b
PyEq(a, b) ==
  IF IsNum(a) /\ IsNum(b) THEN Num(a) = Num(b)
  ELSE IF a.t = "str" /\ b.t = "str" THEN a.s = b.s
  ELSE a.t = "none" /\ b.t = "none"

\* a < b is defined (does not raise TypeError)
Comparable(a, b) ==
  \/ IsNum(a) /\ IsNum(b)
  \/ a.t = "str" /\ b.t = "str"

\* a < b, for comparable a and b
PyLt(a, b) ==
  IF IsNum(a) THEN Num(a) < Num(b) ELSE StrLt(a.s, b.s)

\* str(v)
ToStr(v) ==
  CASE v.t = "str"  -> v.s
    [] v.t = "int"  -> IntToStr(v.n)
    [] v.t = "bool" -> (IF v.b THEN strTrue ELSE strFalse)
    [] v.t = "none" -> strNone

\* bool(v)
Truthy(v) ==
  CASE v.t = "str"  -> v.s # <<>>
    [] v.t = "int"  -> v.n # 0
    [] v.t = "bool" -> v.b
    [] v.t = "none" -> FALSE

\* dict.get(key, default)
Get(d, key, default) == IF key \in DOMAIN d THEN d[key] ELSE default

\* ------------------------------------------------------------------------
\* query_parser.py
\* ------------------------------------------------------------------------
\* A filter string is given by its lexemes, the pieces that white space
\* separates (a quoted string is one lexeme); RawQuery is the string itself.

\* '='
opEq == <<61>>
\* '!='
opNe == <<33, 61>>
\* '>'
opGt == <<62>>
\* '<'
opLt == <<60>>
\* '>='
opGe == <<62, 61>>
\* '<='
opLe == <<60, 61>>
\* 'LIKE'
opLike == <<76, 73, 75, 69>>
\* 'WHERE'
kwWhere == <<87, 72, 69, 82, 69>>
\* 'AND'
kwAnd == <<65, 78, 68>>
\* 'true'
litTrue == <<116, 114, 117, 101>>
\* 'false'
litFalse == <<102, 97, 108, 115, 101>>

\* field = Word(alphas, alphanums + "_")
IsField(lex) ==
  /\ lex # <<>>
  /\ IsAlpha(lex[1])
  /\ \A i \in 2..Len(lex) : IsAlpha(lex[i]) \/ IsDigit(lex[i]) \/ lex[i] = 95

\* operator = one_of("= != > < >= <= LIKE", caseless=True)
OperatorSymbols == {opEq, opNe, opGt, opLt, opGe, opLe, opLike}
IsOperator(lex) == \E sym \in OperatorSymbols : Upper(sym) = Upper(lex)
\* a caseless match returns the symbol as it is spelled in the grammar
OperatorToken(lex) == CHOOSE sym \in OperatorSymbols : Upper(sym) = Upper(lex)

\* quoted_string = QuotedString('"'): the token is the text between the quotes
IsQuoted(lex) ==
  /\ Len(lex) >= 2
  /\ lex[1] = 34 /\ lex[Len(lex)] = 34
  /\ \A i \in 2..(Len(lex) - 1) : lex[i] \notin {34, 10, 13}
\* number = Regex(r'\d+')
IsNumber(lex) == lex # <<>> /\ \A i \in 1..Len(lex) : IsDigit(lex[i])
\* boolean = one_of("true false", caseless=True)
IsBoolean(lex) == Lower(lex) \in {litTrue, litFalse}

\* value = quoted_string | number | boolean
IsValue(lex) == IsQuoted(lex) \/ IsNumber(lex) \/ IsBoolean(lex)
ValueToken(lex) ==
  IF IsQuoted(lex) THEN SubSeq(lex, 2, Len(lex) - 1)
  ELSE IF IsNumber(lex) THEN lex
  ELSE Lower(lex)

\* condition = Group(field + operator + value), tried at lexeme i
IsCondition(q, i) ==
  /\ i + 2 <= Len(q)
  /\ IsField(q[i]) /\ IsOperator(q[i + 1]) /\ IsValue(q[i + 2])
ConditionAt(q, i) ==
  [field |-> q[i], operator |-> OperatorToken(q[i + 1]), value |-> ValueToken(q[i + 2])]

\* CaselessKeyword
IsKeyword(lex, kw) == Upper(lex) = kw

\* ZeroOrMore(CaselessKeyword("AND") + condition), from lexeme i on: it stops,
\* without failing, at the first lexeme that does not continue the list
RECURSIVE MoreConditions(_, _)
MoreConditions(q, i) ==
  IF i <= Len(q) /\ IsKeyword(q[i], kwAnd) /\ IsCondition(q, i + 1)
  THEN <<ConditionAt(q, i + 1)>> \o MoreConditions(q, i + 4)
  ELSE <<>>

\* where_parser.parseString(query) succeeds (no ParseException)
ParseSucceeds(q) ==
  /\ Len(q) >= 1
  /\ IsKeyword(q[1], kwWhere)
  /\ IsCondition(q, 2)

parse_query_conditions(q) ==
  IF ParseSucceeds(q)
  THEN <<ConditionAt(q, 2)>> \o MoreConditions(q, 5)
  ELSE <<>>

\* the filter string: the lexemes with one space between them
RECURSIVE RawQuery(_)
RawQuery(q) ==
  IF q = <<>> THEN <<>>
  ELSE IF Len(q) = 1 THEN q[1]
  ELSE q[1] \o <<32>> \o RawQuery(Tail(q))

\* 'Id'
kId == <<73, 100>>
\* 'Name'
kName == <<78, 97, 109, 101>>
\* 'SeriesName'
kSeriesName == <<83, 101, 114, 105, 101, 115, 78, 97, 109, 101>>
\* 'ProductionYear'
kProductionYear == <<80, 114, 111, 100, 117, 99, 116, 105, 111, 110, 89, 101, 97, 114>>
\* 'UserData'
kUserData == <<85, 115, 101, 114, 68, 97, 116, 97>>
\* 'Played'
kPlayed == <<80, 108, 97, 121, 101, 100>>
\* 'PlayCount'
kPlayCount == <<80, 108, 97, 121, 67, 111, 117, 110, 116>>
\* 'played'
fPlayed == <<112, 108, 97, 121, 101, 100>>
\* 'seriesname'
fSeriesName == <<115, 101, 114, 105, 101, 115, 110, 97, 109, 101>>
\* 'productionyear'
fProductionYear == <<112, 114, 111, 100, 117, 99, 116, 105, 111, 110, 121, 101, 97, 114>>

\* the empty dict, the default of item.get('UserData', {})
EmptyDict == [k \in {} |-> PyNone]

\* the play count is not looked at
NotMarkedPlayed(played_status, play_count) == ~Truthy(played_status)

\* not played_status and play_count == 0
NeverStarted(played_status, play_count) ==
  ~Truthy(played_status) /\ PyEq(play_count, PyInt(0))

\* played_status or play_count > 0
HasBeenPlayed(played_status, play_count) ==
  Truthy(played_status) \/ PyLt(PyInt(0), play_count)

\* no item is skipped for its year
YearNeverMissing(item_value) == FALSE

\* not item_value or item_value == 0
YearMissing(item_value) == ~Truthy(item_value) \/ PyEq(item_value, PyInt(0))

\* "Get field value from item": the left and right values the operator is
\* applied to; raise is the exception it ends with, early is "return False"
FieldValues(item, field, value) ==
  IF field = fPlayed THEN
    LET user_data     == Get(item, kUserData, EmptyDict)
        played_status == Get(user_data, kPlayed, PyBool(FALSE))
        play_count    == Get(user_data, kPlayCount, PyInt(0))
    IN  IF Lower(value) = litFalse THEN
          [raise |-> "", early |-> FALSE,
           item_value |-> PyBool(NeverStarted(played_status, play_count)),
           value |-> PyBool(TRUE)]
        ELSE IF Lower(value) = litTrue THEN
          [raise |-> "", early |-> FALSE,
           item_value |-> PyBool(HasBeenPlayed(played_status, play_count)),
           value |-> PyBool(TRUE)]
        ELSE
          [raise |-> "", early |-> FALSE,
           item_value |-> PyBool(FALSE), value |-> PyStr(value)]
  ELSE IF field = fSeriesName THEN
    [raise |-> "", early |-> FALSE,
     item_value |-> PyStr(Lower(Get(item, kSeriesName, PyStr(<<>>)).s)),
     value |-> PyStr(Lower(value))]
  ELSE IF field = fProductionYear THEN
    LET item_value == Get(item, kProductionYear, PyInt(0))
        parsed     == ParseInt(value)
    IN  IF ~parsed.ok THEN
          [raise |-> "ValueError", early |-> FALSE,
           item_value |-> item_value, value |-> PyStr(value)]
        ELSE
          [raise |-> "",
           early |-> YearMissing(item_value),
           item_value |-> item_value, value |-> PyInt(parsed.n)]
  ELSE
    [raise |-> "", early |-> FALSE,
     item_value |-> Get(item, field, PyStr(<<>>)), value |-> PyStr(value)]

\* the result of an ordered comparison: TypeError when the types do not compare
Ordered(a, b, holds) ==
  IF ~Comparable(a, b) THEN "TypeError" ELSE IF holds THEN "True" ELSE "False"

PyBoolStr(b) == IF b THEN "True" ELSE "False"

\* "Apply operator"
ApplyOperator(operator, item_value, value) ==
  IF operator = opEq THEN PyBoolStr(PyEq(item_value, value))
  ELSE IF operator = opNe THEN PyBoolStr(~PyEq(item_value, value))
  ELSE IF operator = opGt THEN
    Ordered(item_value, value, Comparable(item_value, value) /\ PyLt(value, item_value))
  ELSE IF operator = opLt THEN
    Ordered(item_value, value, Comparable(item_value, value) /\ PyLt(item_value, value))
  ELSE IF operator = opGe THEN
    Ordered(item_value, value, Comparable(item_value, value) /\ ~PyLt(item_value, value))
  ELSE IF operator = opLe THEN
    Ordered(item_value, value, Comparable(item_value, value) /\ ~PyLt(value, item_value))
  ELSE IF operator = opLike THEN PyBoolStr(Contains(ToStr(value), ToStr(item_value)))
  ELSE "False"

\* matches_condition(item, condition): "True", "False", or the exception raised
matches_condition(item, condition) ==
  LET field    == Lower(condition.field)
      operator == Upper(condition.operator)
      fv       == FieldValues(item, field, condition.value)
  IN  IF fv.raise # "" THEN fv.raise
      ELSE IF fv.early THEN "False"
      ELSE ApplyOperator(operator, fv.item_value, fv.value)

\* the loop returns after its first condition
matches_first_condition(item, conditions) ==
  IF conditions = <<>> THEN "True" ELSE matches_condition(item, Head(conditions))

\* matches_all_conditions(item, conditions): the loop returns False at the first
\* condition that does not match, and ends with the first exception
RECURSIVE matches_all_conditions(_, _)
matches_all_conditions(item, conditions) ==
  IF conditions = <<>> THEN "True"
  ELSE LET r == matches_condition(item, Head(conditions))
       IN  IF r = "True" THEN matches_all_conditions(item, Tail(conditions))
           ELSE r

\* lexemes and strings of the inputs the model is run on
\* 'name'
fName == <<110, 97, 109, 101>>
\* 'like'
lexLikeLower == <<108, 105, 107, 101>>
\* 'OR'
lexOr == <<79, 82>>
\* '('
lexOpen == <<40>>
\* 'TRUE'
lexTrueUpper == <<84, 82, 85, 69>>
\* '"maybe"'
lexMaybe == <<34, 109, 97, 121, 98, 101, 34>>
\* '"als"'
lexAls == <<34, 97, 108, 115, 34>>
\* '1999'
lex1999 == <<49, 57, 57, 57>>
\* '"2000"'
lex2000Quoted == <<34, 50, 48, 48, 48, 34>>
\* '0'
lexZero == <<48>>
\* '"Foo"'
lexFoo == <<34, 70, 111, 111, 34>>
\* '"foo"'
lexFooLower == <<34, 102, 111, 111, 34>>
\* '"oo"'
lexOo == <<34, 111, 111, 34>>
\* '"X"'
lexX == <<34, 88, 34>>
\* 'Foo'
sFoo == <<70, 111, 111>>
\* 'foo'
sFooLower == <<102, 111, 111>>
\* 'X'
sX == <<88>>
\* '~='
opUnknown == <<126, 61>>

\* ------------------------------------------------------------------------
\* jellyfin_client.py and the server it talks to
\* ------------------------------------------------------------------------

\* 'Pilot'
sPilot == <<80, 105, 108, 111, 116>>
\* 'Type'
kType == <<84, 121, 112, 101>>
\* 'Episode'
sEpisode == <<69, 112, 105, 115, 111, 100, 101>>
\* 'Movie'
sMovie == <<77, 111, 118, 105, 101>>
\* 'Shows'
sShows == <<83, 104, 111, 119, 115>>
\* 'Series'
sSeries == <<83, 101, 114, 105, 101, 115>>
\* 'Movies'
sMovies == <<77, 111, 118, 105, 101, 115>>
\* 'Played = false'
sPlayedEqFalse == <<80, 108, 97, 121, 101, 100, 32, 61, 32, 102, 97, 108, 115, 101>>
\* 'Played = true'
sPlayedEqTrue == <<80, 108, 97, 121, 101, 100, 32, 61, 32, 116, 114, 117, 101>>
\* 'TV Shows'
sTVShows == <<84, 86, 32, 83, 104, 111, 119, 115>>
\* 'Nope'
sNope == <<78, 111, 112, 101>>
\* 'Example'
sExample == <<69, 120, 97, 109, 112, 108, 101>>
\* 'example'
sExampleLower == <<101, 120, 97, 109, 112, 108, 101>>
\* 'Other'
sOther == <<79, 116, 104, 101, 114>>
\* '"Example"'
lexExample == <<34, 69, 120, 97, 109, 112, 108, 101, 34>>
\* '"abc"'
lexAbc == <<34, 97, 98, 99, 34>>

\* batch_size in add_to_collection and remove_from_collection
batch_size == 50

\* the episodes of the server's library "TV Shows"
Episodes ==
  { (kId :> PyStr(<<97>>)) @@ (kName :> PyStr(sPilot)) @@ (kType :> PyStr(sEpisode))
      @@ (kSeriesName :> PyStr(sExample)) @@ (kProductionYear :> PyInt(2005))
      @@ (kUserData :> ((kPlayed :> PyBool(FALSE)) @@ (kPlayCount :> PyInt(0)))),
    (kId :> PyStr(<<98>>)) @@ (kName :> PyStr(sPilot)) @@ (kType :> PyStr(sEpisode))
      @@ (kSeriesName :> PyStr(sExampleLower)) @@ (kProductionYear :> PyInt(1999))
      @@ (kUserData :> ((kPlayed :> PyBool(FALSE)) @@ (kPlayCount :> PyInt(0)))),
    (kId :> PyStr(<<99>>)) @@ (kName :> PyStr(sPilot)) @@ (kType :> PyStr(sEpisode))
      @@ (kSeriesName :> PyStr(sOther)) @@ (kProductionYear :> PyInt(2010))
      @@ (kUserData :> ((kPlayed :> PyBool(FALSE)) @@ (kPlayCount :> PyInt(3)))) }

\* the server's library "Movies": more movies than two batches hold, the
\* first batch_size + 1 of them recent
MovieCount == 2 * batch_size + 2
MovieId(k) == <<109>> \o NatToStr(k)
Movies ==
  { (kId :> PyStr(MovieId(k))) @@ (kName :> PyStr(sPilot)) @@ (kType :> PyStr(sMovie))
      @@ (kProductionYear :> PyInt(IF k <= batch_size + 1 THEN 2010 ELSE 1990))
      @@ (kUserData :> ((kPlayed :> PyBool(FALSE)) @@ (kPlayCount :> PyInt(0)))) :
    k \in 1..MovieCount }
RecentMovieIds == {MovieId(k) : k \in 1..(batch_size + 1)}
OldMovieIds == {MovieId(k) : k \in (batch_size + 2)..MovieCount}

\* the libraries of the server, by name (the Id of a library is its name)
LibraryNames == {sTVShows, sMovies}
LibraryItems(library_id) == IF library_id = sTVShows THEN Episodes ELSE Movies

\* the episode IDs a collection can hold
ItemIds == {it[kId].s : it \in Episodes}

\* the request parameters get_media_items builds from the library name and
\* the filter string
MediaParams(library_name, q) ==
  [ParentId |-> library_name,
   isPlayed |->
     IF Contains(sPlayedEqFalse, RawQuery(q)) THEN "false"
     ELSE IF Contains(sPlayedEqTrue, RawQuery(q)) THEN "true"
     ELSE "",
   includeItemTypes |->
     IF Contains(sShows, library_name) \/ Contains(sSeries, library_name) THEN sEpisode
     ELSE IF Contains(sMovies, library_name) THEN sMovie
     ELSE <<>>]

\* the server's answer to GET /Users/{user}/Items with these parameters
ServerItems(params) ==
  {it \in LibraryItems(params.ParentId) :
     /\ params.includeItemTypes # <<>> => it[kType].s = params.includeItemTypes
     /\ params.isPlayed # "" =>
          (Get(Get(it, kUserData, EmptyDict), kPlayed, PyBool(FALSE)).b
             <=> params.isPlayed = "true")}

\* get_library_id raises ValueError when no view has the name
LibraryFound(library_name) == library_name \in LibraryNames

\* the filter pass of get_media_items over the server's items: the exception
\* the list comprehension ends with, "" when there is none
FilterRaises(items, conds) ==
  IF \E it \in items : matches_all_conditions(it, conds) \notin {"True", "False"}
  THEN LET it == CHOOSE x \in items : matches_all_conditions(x, conds) \notin {"True", "False"}
       IN  matches_all_conditions(it, conds)
  ELSE ""

\* "Apply all conditions as filters"
FilterItems(items, conds) == {it \in items : matches_all_conditions(it, conds) = "True"}

\* get_media_items(library_name, query) when no request fails:
\* [raise |-> the exception, "" for none, items |-> the items returned]
get_media_items(library_name, q) ==
  IF ~LibraryFound(library_name) THEN [raise |-> "ValueError", items |-> {}]
  ELSE LET conds == parse_query_conditions(q)
           items == ServerItems(MediaParams(library_name, q))
       IN  IF FilterRaises(items, conds) # ""
           THEN [raise |-> FilterRaises(items, conds), items |-> {}]
           ELSE [raise |-> "", items |-> FilterItems(items, conds)]

\* the largest set whose every iteration order is tried
MaxShuffled == 3

\* one iteration order of a set
RECURSIVE OneOrder(_)
OneOrder(S) ==
  IF S = {} THEN <<>>
  ELSE LET x == CHOOSE y \in S : TRUE IN <<x>> \o OneOrder(S \ {x})

\* every iteration order of a set
RECURSIVE Orders(_)
Orders(S) ==
  IF S = {} THEN {<<>>}
  ELSE UNION {{<<x>> \o l : l \in Orders(S \ {x})} : x \in S}

\* list(a_set): the orders the set can be iterated in (one order, for a set
\* of more than MaxShuffled elements)
Lists(S) == IF Cardinality(S) > MaxShuffled THEN {OneOrder(S)} ELSE Orders(S)

\* the whole list is sent in every request
WholeList(item_ids, i) == item_ids

\* batch = item_ids[i:i + batch_size]
Batch(item_ids, i) ==
  SubSeq(item_ids, i + 1, IF i + batch_size < Len(item_ids) THEN i + batch_size ELSE Len(item_ids))

Range(s) == {s[k] : k \in 1..Len(s)}

\* the whole desired set is added again
ItemsToAddAll(desired, current) == desired

\* the operands of the difference are swapped
ItemsToAddSwapped(desired, current) == current \ desired

\* items_to_add = desired_item_ids - current_item_ids
ItemsToAdd(desired, current) == desired \ current

\* the whole content is removed
ItemsToRemoveAll(desired, current) == current

\* items_to_remove = current_item_ids - desired_item_ids
ItemsToRemove(desired, current) == current \ desired

\* ------------------------------------------------------------------------
\* State
\* ------------------------------------------------------------------------

VARIABLES
  \* the server: collection Id -> [Name, Items]
  boxsets,
  \* process_collections: its arguments, its position and its locals
  dry_run,
  collections_config,    \* the configured collections, in the order of the file
  pc,                    \* "start", "collection", "filter", "current", "add",
                         \* "remove", "returned", "raised" ("idle": not running)
  idx,                   \* the position of the for loop in collections_config
  existing_collections,
  existing_names,
  has_errors,
  collection_id,
  desired_item_ids,
  items_to_add,
  items_to_remove,
  item_ids,              \* the list add_to_collection / remove_from_collection batches
  batch_start,           \* i, the offset of the batch loop
  \* what the run did, kept for the properties
  pass,                  \* the number of the run of the program
  calls,                 \* the mutating requests of this run, in order
  log,                   \* per collection of this run: its outcome and its plan
  previous,              \* per collection: its outcome in the run before
  at_start,              \* the server's collections when this run started
  \* the filter engine applied to one item
  phase,       \* "parse", "match" or "done" ("idle" outside the filter engine runs)
  item,        \* the item under test
  query,       \* the filter string, as lexemes
  conditions,  \* the condition list (from the parser, or handed in)
  parsed,      \* parseString raised no ParseException
  results,     \* matches_condition(item, c) for each condition c
  matched,     \* matches_all_conditions(item, conditions)
  without      \* matches_all_conditions with condition i left out, for each i

evalVars == <<phase, item, query, conditions, parsed, results, matched, without>>

serverVars == <<boxsets>>
argVars == <<dry_run, collections_config>>
loopVars == <<pc, idx, has_errors>>
snapshotVars == <<existing_collections, existing_names>>
localVars == <<collection_id, desired_item_ids, items_to_add, items_to_remove, item_ids, batch_start>>
historyVars == <<pass, calls, log, previous, at_start>>
runVars == <<serverVars, argVars, loopVars, snapshotVars, localVars, historyVars>>

vars == <<runVars, evalVars>>

\* ------------------------------------------------------------------------
\* collection_manager.py: process_collections
\* ------------------------------------------------------------------------

\* how many times the program is run, one run after the other
MaxPasses == 2

\* the collections of the configuration file
Names == {"A", "B"}
\* the Id the server gives the collection of a name
IdOf(name) == IF name = "A" THEN "id-A" ELSE "id-B"
\* collection_id = None
NoId == ""

\* 'WHERE Played = false'
QueryUnplayed == <<kwWhere, kPlayed, opEq, litFalse>>
\* 'WHERE ProductionYear > "2000" AND SeriesName = "Example"'
QueryRecentExample ==
  <<kwWhere, kProductionYear, opGt, lex2000Quoted, kwAnd, kSeriesName, opEq, lexExample>>
\* 'Played false'
QueryMalformed == <<kPlayed, litFalse>>
\* 'WHERE ProductionYear = "abc"'
QueryBadYear == <<kwWhere, kProductionYear, opEq, lexAbc>>

\* what the configuration can say of a collection: a filter that parses, one
\* that does not, one that raises, none at all, a library the server does not
\* have, no library
CollectionConfigs ==
  {[query |-> q, from |-> sTVShows] :
     q \in {QueryUnplayed, QueryRecentExample, QueryMalformed, QueryBadYear, <<>>}}
    \cup {[query |-> QueryUnplayed, from |-> l] : l \in {sNope, <<>>}}

\* two collections: the first is configured in every way, the second in the
\* ways that reach the plan
Configs ==
  {<<[name |-> "A"] @@ a, [name |-> "B"] @@ b>> :
     a \in CollectionConfigs,
     b \in {c \in CollectionConfigs :
              c.from = sTVShows /\ c.query \in {QueryUnplayed, QueryRecentExample, QueryBadYear}}}

\* the collections the server holds when the program starts: each is absent
\* or present; the second holds any set of items, the first one of a few
Contents(name) ==
  IF name = "A" THEN {{}, {<<98>>, <<99>>}} ELSE SUBSET ItemIds
Servers ==
  {[id \in {IdOf(n) : n \in present} |-> [Name |-> CHOOSE n \in present : IdOf(n) = id,
                                          Items |-> content[id]]] :
     present \in SUBSET Names,
     content \in {c \in [{IdOf(n) : n \in Names} -> SUBSET ItemIds] :
                    \A n \in Names : c[IdOf(n)] \in Contents(n)}}

\* 'WHERE ProductionYear > "2000"'
QueryRecent == <<kwWhere, kProductionYear, opGt, lex2000Quoted>>

\* the first collection filters the library "Movies", and holds nothing, the
\* old movies, the old movies and a recent one, or every movie: its additions
\* and its removals take more than one batch
MovieConfigs ==
  {<<[name |-> "A", query |-> QueryRecent, from |-> sMovies],
     [name |-> "B", query |-> QueryUnplayed, from |-> sTVShows]>>}
MovieServers ==
  {[id \in {IdOf(n) : n \in present} |->
      [Name |-> CHOOSE n \in present : IdOf(n) = id,
       Items |-> IF id = IdOf("A") THEN content ELSE {<<99>>}]] :
     present \in SUBSET Names,
     content \in {{}, OldMovieIds, OldMovieIds \cup {MovieId(1)},
                  RecentMovieIds \cup OldMovieIds}}

NoEntry == [state |-> "pending", error |-> "", desired |-> {}, current |-> {},
            add |-> {}, remove |-> {}]
EmptyLog == [n \in Names |-> NoEntry]

InitLocals ==
  /\ collection_id = NoId
  /\ desired_item_ids = {}
  /\ items_to_add = {}
  /\ items_to_remove = {}
  /\ item_ids = <<>>
  /\ batch_start = 0

InitIdleEval ==
  /\ phase = "idle"
  /\ item = EmptyDict
  /\ query = <<>>
  /\ conditions = <<>>
  /\ parsed = FALSE
  /\ results = <<>>
  /\ matched = ""
  /\ without = <<>>

Init ==
  /\ \/ /\ collections_config \in Configs
        /\ boxsets \in Servers
     \/ /\ collections_config \in MovieConfigs
        /\ boxsets \in MovieServers
  /\ dry_run \in BOOLEAN
  /\ pc = "start"
  /\ idx = 1
  /\ existing_collections = {}
  /\ existing_names = {}
  /\ has_errors = FALSE
  /\ InitLocals
  /\ pass = 1
  /\ calls = <<>>
  /\ log = EmptyLog
  /\ previous = [n \in Names |-> ""]
  /\ at_start = boxsets
  /\ InitIdleEval

\* the locals are assigned again before they are read: they are cleared when
\* the loop moves on
ClearLocals ==
  /\ collection_id' = NoId
  /\ desired_item_ids' = {}
  /\ items_to_add' = {}
  /\ items_to_remove' = {}
  /\ item_ids' = <<>>
  /\ batch_start' = 0

\* "break" where the code has "continue"
BreakLoop(k, n) == n + 1

\* where the for loop goes after "continue" in an except block
AfterError(k, n) == k + 1

\* where the for loop goes at the end of its body
AfterBody(k, n) == k + 1

\* the loop moves to position k; after the last collection the function returns
MoveTo(k) ==
  /\ idx' = k
  /\ pc' = IF k > Len(collections_config) THEN "returned" ELSE "collection"
  /\ ClearLocals

\* except Exception: continue, and the flag is left as it is
Swallow(name, where) ==
  /\ UNCHANGED has_errors
  /\ log' = [log EXCEPT ![name].state = "failed", ![name].error = where]
  /\ MoveTo(AfterError(idx, Len(collections_config)))

\* the failure of add_to_collection is caught on its own, and the removals
\* are made after it
CarryOn(name, where) ==
  /\ has_errors' = TRUE
  /\ log' = [log EXCEPT ![name].state = "failed", ![name].error = where]
  /\ IF where = "add" THEN
       /\ pc' = "remove"
       /\ item_ids' \in Lists(items_to_remove)
       /\ batch_start' = 0
       /\ UNCHANGED <<idx, collection_id, desired_item_ids, items_to_add, items_to_remove>>
     ELSE MoveTo(AfterError(idx, Len(collections_config)))

\* the request that failed is made again
Retry(name, where) ==
  /\ has_errors' = TRUE
  /\ UNCHANGED <<log, idx, pc, localVars>>

\* except Exception: has_errors = True; continue
Fail(name, where) ==
  /\ has_errors' = TRUE
  /\ log' = [log EXCEPT ![name].state = "failed", ![name].error = where]
  /\ MoveTo(AfterError(idx, Len(collections_config)))

Call(op, name, id, ids, ok) ==
  [op |-> op, name |-> name, collection_id |-> id, ids |-> ids, ok |-> ok]

\* existing_collections = get_existing_collections(...): the request fails and
\* process_collections raises, or the collections of the server are listed
GetExistingCollections ==
  /\ pc = "start"
  /\ \/ /\ existing_collections' =
             {[Name |-> boxsets[id].Name, Id |-> id] : id \in DOMAIN boxsets}
        /\ existing_names' = {boxsets[id].Name : id \in DOMAIN boxsets}
        /\ has_errors' = FALSE
        /\ idx' = 1
        /\ pc' = IF Len(collections_config) = 0 THEN "returned" ELSE "collection"
     \/ /\ pc' = "raised"
        /\ UNCHANGED <<idx, has_errors, snapshotVars>>
  /\ UNCHANGED <<serverVars, argVars, localVars, historyVars, evalVars>>

\* the dry-run flag is not looked at
AppliesAlways(dry) == TRUE

\* if dry_run: ... else: the mutating call is made
Applies(dry) == ~dry

\* query and library_name
HasQueryAndLibrary(cfg) == RawQuery(cfg.query) # <<>> /\ cfg.from # <<>>

\* the body of the for loop up to "if query and library_name": the collection
\* is created or looked up
ResolveCollection ==
  /\ pc = "collection"
  /\ LET cfg  == collections_config[idx]
         name == cfg.name
         \* "if not collection_id" and "if query and library_name"
         Resolved(id) ==
           IF id = NoId THEN
             /\ Fail(name, "no_id")
           ELSE IF HasQueryAndLibrary(cfg) THEN
             /\ collection_id' = id
             /\ pc' = "filter"
             /\ UNCHANGED <<idx, has_errors, log, desired_item_ids, items_to_add,
                            items_to_remove, item_ids, batch_start>>
           ELSE
             /\ log' = [log EXCEPT ![name].state = "unfiltered"]
             /\ MoveTo(AfterBody(idx, Len(collections_config)))
             /\ UNCHANGED has_errors
     IN  IF name \notin existing_names THEN
           IF ~Applies(dry_run) THEN
             \* [DRY RUN] Would create new collection
             /\ log' = [log EXCEPT ![name].state = "skipped"]
             /\ MoveTo(AfterBody(idx, Len(collections_config)))
             /\ UNCHANGED <<boxsets, existing_names, has_errors, calls>>
           ELSE
             \/ \* create_collection raises
                /\ calls' = Append(calls, Call("create", name, NoId, <<>>, FALSE))
                /\ Fail(name, "create")
                /\ UNCHANGED <<boxsets, existing_names>>
             \/ \* the collection is created; the answer has its Id, or has none
                /\ IdOf(name) \notin DOMAIN boxsets
                /\ boxsets' = (IdOf(name) :> [Name |-> name, Items |-> {}]) @@ boxsets
                /\ \E id \in {IdOf(name), NoId} :
                     /\ calls' = Append(calls, Call("create", name, id, <<>>, TRUE))
                     /\ existing_names' = existing_names \cup {name}
                     /\ Resolved(id)
         ELSE
           /\ Resolved(IF \E col \in existing_collections : col.Name = name
                       THEN (CHOOSE col \in existing_collections : col.Name = name).Id
                       ELSE NoId)
           /\ UNCHANGED <<boxsets, existing_names, calls>>
  /\ UNCHANGED <<argVars, existing_collections, pass, previous, at_start, evalVars>>

\* items = get_media_items(...); desired_item_ids = {item['Id'] for item in items}
GetMediaItems ==
  /\ pc = "filter"
  /\ LET cfg == collections_config[idx]
         got == get_media_items(cfg.from, cfg.query)
     IN  \/ \* a request of get_media_items fails
            Fail(cfg.name, "filter")
         \/ \* the library is not found, or the filter raises
            /\ got.raise # ""
            /\ Fail(cfg.name, "filter")
         \/ /\ got.raise = ""
            /\ desired_item_ids' = {it[kId].s : it \in got.items}
            /\ pc' = "current"
            /\ UNCHANGED <<idx, has_errors, log, collection_id, items_to_add,
                           items_to_remove, item_ids, batch_start>>
  /\ UNCHANGED <<serverVars, argVars, snapshotVars, pass, calls, previous, at_start, evalVars>>

\* the plan is done: the collection is in sync
Synced(name) ==
  /\ log' = [log EXCEPT ![name].state = "synced"]
  /\ MoveTo(AfterBody(idx, Len(collections_config)))

\* get_collection_items, the two set differences, and the dry-run branches
GetCollectionItems ==
  /\ pc = "current"
  /\ LET name    == collections_config[idx].name
         current == boxsets[collection_id].Items
         add     == ItemsToAdd(desired_item_ids, current)
         remove  == ItemsToRemove(desired_item_ids, current)
         plan    == [log EXCEPT ![name].desired = desired_item_ids,
                                ![name].current = current,
                                ![name].add = add,
                                ![name].remove = remove]
     IN  \/ \* the request fails
            Fail(name, "current")
         \/ /\ ~Applies(dry_run)
            /\ log' = [plan EXCEPT ![name].state = "simulated"]
            /\ MoveTo(AfterBody(idx, Len(collections_config)))
            /\ UNCHANGED has_errors
         \/ /\ Applies(dry_run)
            /\ add # {}
            /\ log' = plan
            /\ items_to_add' = add
            /\ items_to_remove' = remove
            /\ item_ids' \in Lists(add)
            /\ batch_start' = 0
            /\ pc' = "add"
            /\ UNCHANGED <<idx, has_errors, collection_id, desired_item_ids>>
         \/ /\ Applies(dry_run)
            /\ add = {} /\ remove # {}
            /\ log' = plan
            /\ items_to_add' = add
            /\ items_to_remove' = remove
            /\ item_ids' \in Lists(remove)
            /\ batch_start' = 0
            /\ pc' = "remove"
            /\ UNCHANGED <<idx, has_errors, collection_id, desired_item_ids>>
         \/ /\ Applies(dry_run)
            /\ add = {} /\ remove = {}
            /\ log' = [plan EXCEPT ![name].state = "synced"]
            /\ MoveTo(AfterBody(idx, Len(collections_config)))
            /\ UNCHANGED has_errors
  /\ UNCHANGED <<serverVars, argVars, snapshotVars, pass, calls, previous, at_start, evalVars>>

\* add_to_collection, one request of its loop at a time:
\* POST /Collections/{id}/Items
AddBatch ==
  /\ pc = "add"
  /\ LET name  == collections_config[idx].name
         batch == Batch(item_ids, batch_start)
         \* the function has returned: "Remove items that shouldn't be there"
         Added ==
           IF items_to_remove # {} THEN
             /\ item_ids' \in Lists(items_to_remove)
             /\ batch_start' = 0
             /\ pc' = "remove"
             /\ UNCHANGED <<idx, has_errors, log, collection_id, desired_item_ids,
                            items_to_add, items_to_remove>>
           ELSE
             /\ Synced(name)
             /\ UNCHANGED has_errors
     IN  \/ \* if not item_ids: return
            /\ item_ids = <<>>
            /\ Added
            /\ UNCHANGED <<boxsets, calls>>
         \/ \* raise_for_status raises
            /\ item_ids # <<>>
            /\ calls' = Append(calls, Call("add", name, collection_id, batch, FALSE))
            /\ Fail(name, "add")
            /\ UNCHANGED boxsets
         \/ /\ item_ids # <<>>
            /\ calls' = Append(calls, Call("add", name, collection_id, batch, TRUE))
            /\ boxsets' = [boxsets EXCEPT ![collection_id].Items = @ \cup Range(batch)]
            /\ IF batch_start + batch_size < Len(item_ids) THEN
                 /\ batch_start' = batch_start + batch_size
                 /\ UNCHANGED <<pc, idx, has_errors, log, collection_id, desired_item_ids,
                                items_to_add, items_to_remove, item_ids>>
               ELSE Added
  /\ UNCHANGED <<argVars, snapshotVars, pass, previous, at_start, evalVars>>

\* remove_from_collection, one request of its loop at a time:
\* DELETE /Collections/{id}/Items
RemoveBatch ==
  /\ pc = "remove"
  /\ LET name  == collections_config[idx].name
         batch == Batch(item_ids, batch_start)
     IN  \/ \* if not item_ids: return
            /\ item_ids = <<>>
            /\ Synced(name)
            /\ UNCHANGED <<boxsets, calls, has_errors>>
         \/ \* raise_for_status raises
            /\ item_ids # <<>>
            /\ calls' = Append(calls, Call("remove", name, collection_id, batch, FALSE))
            /\ Fail(name, "remove")
            /\ UNCHANGED boxsets
         \/ /\ item_ids # <<>>
            /\ calls' = Append(calls, Call("remove", name, collection_id, batch, TRUE))
            /\ boxsets' = [boxsets EXCEPT ![collection_id].Items = @ \ Range(batch)]
            /\ IF batch_start + batch_size < Len(item_ids) THEN
                 /\ batch_start' = batch_start + batch_size
                 /\ UNCHANGED <<pc, idx, has_errors, log, collection_id, desired_item_ids,
                                items_to_add, items_to_remove, item_ids>>
               ELSE
                 /\ Synced(name)
                 /\ UNCHANGED has_errors
  /\ UNCHANGED <<argVars, snapshotVars, pass, previous, at_start, evalVars>>

\* the program is run again, with or without --dry-run, on the same
\* configuration and the server as the last run left it
RunAgain ==
  /\ pc \in {"returned", "raised"}
  /\ pass < MaxPasses
  /\ pass' = pass + 1
  /\ dry_run' \in BOOLEAN
  /\ pc' = "start"
  /\ idx' = 1
  /\ has_errors' = FALSE
  /\ existing_collections' = {}
  /\ existing_names' = {}
  /\ calls' = <<>>
  /\ previous' = [n \in Names |-> IF dry_run THEN "dry" ELSE log[n].state]
  /\ log' = EmptyLog
  /\ at_start' = boxsets
  /\ UNCHANGED <<serverVars, collections_config, localVars, evalVars>>

Next ==
  \/ GetExistingCollections
  \/ ResolveCollection
  \/ GetMediaItems
  \/ GetCollectionItems
  \/ AddBatch
  \/ RemoveBatch
  \/ RunAgain

Spec == Init /\ [][Next]_vars

\* the value process_collections returns
Returned == pc = "returned"
ReturnValue == ~has_errors

InitIdleRun ==
  /\ boxsets = [id \in {} |-> {}]
  /\ dry_run = FALSE
  /\ collections_config = <<>>
  /\ pc = "idle"
  /\ idx = 1
  /\ existing_collections = {}
  /\ existing_names = {}
  /\ has_errors = FALSE
  /\ InitLocals
  /\ pass = 1
  /\ calls = <<>>
  /\ log = EmptyLog
  /\ previous = [n \in Names |-> ""]
  /\ at_start = boxsets


\* ------------------------------------------------------------------------
\* Properties of process_collections
\* ------------------------------------------------------------------------

ConfigOf(n) == CHOOSE c \in Range(collections_config) : c.name = n

\* a plan has been computed for the collection in this run
PlanComputed(n) ==
  \/ log[n].state \in {"simulated", "synced"}
  \/ log[n].state = "failed" /\ log[n].error \in {"add", "remove"}
  \/ log[n].state = "pending" /\ pc \in {"add", "remove"} /\ collections_config[idx].name = n

\* the requests of this run that change the collection of the name
MutationsOf(n) == {k \in 1..Len(calls) : calls[k].name = n}

\* C1: the additions and the removals of every computed plan are disjoint,
\* and once a run that is no dry run has applied every add and remove batch
\* of a collection, the collection holds exactly the desired set.
PlanReachesDesired ==
  \A n \in Names :
    /\ log[n].add \cap log[n].remove = {}
    /\ log[n].state = "synced" => boxsets[IdOf(n)].Items = log[n].desired

\* C1: a collection is in sync after more than one batch of items was added
\* and more than one batch removed
PlanReachesDesiredWitness ==
  \E n \in Names :
    /\ log[n].state = "synced"
    /\ Cardinality(log[n].add) > batch_size /\ Cardinality(log[n].remove) > batch_size
    /\ \E k, m \in MutationsOf(n) :
         /\ calls[k].op = "add" /\ Len(calls[k].ids) < batch_size
         /\ calls[m].op = "remove" /\ Len(calls[m].ids) < batch_size

\* C2: a collection that the run before (no dry run) left in sync has an
\* empty plan in this run, and no request that changes it is made.
SecondRunIsEmpty ==
  \A n \in Names :
    previous[n] = "synced" =>
      /\ log[n].add = {} /\ log[n].remove = {}
      /\ MutationsOf(n) = {}

\* C2: the second run has computed the plan of a collection the first run
\* filled
SecondRunIsEmptyWitness ==
  \E n \in Names :
    /\ pass = 2 /\ previous[n] = "synced"
    /\ log[n].state \in {"synced", "simulated"}
    /\ log[n].desired # {} /\ log[n].current = log[n].desired

\* C3: a dry run makes no request that changes the server, and the plan it
\* reports is the two set differences of the desired and the current set.
DryRunChangesNothing ==
  dry_run =>
    /\ calls = <<>>
    /\ boxsets = at_start
    /\ \A n \in Names :
         PlanComputed(n) =>
           /\ log[n].add = log[n].desired \ log[n].current
           /\ log[n].remove = log[n].current \ log[n].desired

\* C3: a dry run has reported a plan with additions and removals, and has
\* skipped a collection the server does not have
DryRunChangesNothingWitness ==
  /\ dry_run /\ pc = "returned"
  /\ log["A"].state = "skipped"
  /\ log["B"].state = "simulated" /\ log["B"].add # {} /\ log["B"].remove # {}

\* what a collection ends as when none of its own requests fails
OutcomeWithoutFailure(n) ==
  IF dry_run /\ IdOf(n) \notin DOMAIN at_start THEN "skipped"
  ELSE IF ~HasQueryAndLibrary(ConfigOf(n)) THEN "unfiltered"
  ELSE IF dry_run THEN "simulated"
  ELSE "synced"

\* C4: a failure of one collection marks the run as failed and ends the
\* work on that collection only: when the function returns every collection
\* has been worked on, a collection that did not fail itself has the outcome
\* it has in a run without failures, and its plan is the one its own filter
\* and its own content at the start of the run give. Only the listing of the
\* collections, before the loop, ends the run.
FailureIsIsolated ==
  /\ pc = "raised" => log = EmptyLog
  /\ \A n \in Names :
       /\ log[n].state = "failed" => has_errors
       /\ pc = "returned" => log[n].state # "pending"
       /\ (pc = "returned" /\ log[n].state # "failed") =>
            log[n].state = OutcomeWithoutFailure(n)
       /\ PlanComputed(n) =>
            /\ log[n].desired =
                 {it[kId].s : it \in get_media_items(ConfigOf(n).from, ConfigOf(n).query).items}
            /\ log[n].current =
                 IF IdOf(n) \in DOMAIN at_start THEN at_start[IdOf(n)].Items ELSE {}

\* C4: the first collection failed in a request that changes it, and the
\* second was brought in sync after that
FailureIsIsolatedWitness ==
  /\ pc = "returned" /\ has_errors
  /\ log["A"].state = "failed" /\ log["A"].error = "add"
  /\ log["B"].state = "synced" /\ log["B"].add # {} /\ log["B"].remove # {}

\* ------------------------------------------------------------------------
\* The filter engine on bounded inputs
\* ------------------------------------------------------------------------

\* the largest play count of an item under test
MaxPlayCount == 3
\* the longest filter string, in lexemes, among the unstructured ones
MaxLexemes == 5

\* items: every combination of SeriesName, ProductionYear and UserData, each
\* absent or present; Name is always there, and so is a lower-case key
EvalSeries == {EmptyDict, kSeriesName :> PyStr(sFoo), kSeriesName :> PyStr(sFooLower)}
EvalYears ==
  {EmptyDict} \cup {kProductionYear :> PyInt(y) : y \in {0, 1999, 2005}}
EvalUserData ==
  {EmptyDict, kUserData :> EmptyDict,
   kUserData :> (kPlayed :> PyBool(TRUE)),
   kUserData :> (kPlayCount :> PyInt(MaxPlayCount))}
    \cup {kUserData :> ((kPlayed :> PyBool(p)) @@ (kPlayCount :> PyInt(n))) :
            p \in BOOLEAN, n \in {0, MaxPlayCount}}
EvalItems ==
  {(kName :> PyStr(sX)) @@ (fName :> PyStr(sX)) @@ s @@ y @@ u :
     s \in EvalSeries, y \in EvalYears, u \in EvalUserData}

FieldLexemes ==
  {kPlayed, fPlayed, kSeriesName, fSeriesName, kProductionYear, kName, fName}
OperatorLexemes == OperatorSymbols \cup {lexLikeLower}
ValueLexemes ==
  {litFalse, litTrue, lexTrueUpper, lexMaybe, lexAls, lex1999, lex2000Quoted,
   lexZero, lexFoo, lexFooLower, lexOo, lexX}

\* WHERE field operator value
OneConditionQueries ==
  {<<kwWhere, f, o, v>> : f \in FieldLexemes, o \in OperatorLexemes, v \in ValueLexemes}

\* WHERE condition AND condition (AND condition), over a few conditions
SomeConditions ==
  {<<kPlayed, opEq, litFalse>>, <<kPlayed, opNe, lexMaybe>>,
   <<kSeriesName, opEq, lexFoo>>, <<kProductionYear, opGt, lex2000Quoted>>,
   <<kProductionYear, opEq, lexFoo>>, <<fName, opGt, lex1999>>}
\* 'WHERE Played = false AND Played = true', in both orders
DualQueries ==
  {<<kwWhere, kPlayed, opEq, a, kwAnd, fPlayed, opEq, b>> :
     a, b \in {litFalse, litTrue, lexTrueUpper}}
ManyConditionQueries ==
  DualQueries
    \cup {<<kwWhere>> \o a \o <<kwAnd>> \o b : a, b \in SomeConditions}
    \cup {<<kwWhere>> \o a \o <<kwAnd>> \o b \o <<kwAnd>> \o <<kPlayed, opEq, litTrue>> :
            a, b \in SomeConditions}

\* every string of at most MaxLexemes lexemes over a small alphabet, and some
\* longer ones: a clause or a lexeme after the last condition
Alphabet == {kwWhere, kwAnd, lexOr, lexOpen, kPlayed, opEq, litFalse}
RECURSIVE LexemeStrings(_)
LexemeStrings(n) ==
  IF n = 0 THEN {<<>>}
  ELSE LET shorter == LexemeStrings(n - 1)
       IN  shorter \cup {Append(q, x) : q \in {r \in shorter : Len(r) = n - 1}, x \in Alphabet}
TrailingQueries ==
  {<<kwWhere, kPlayed, opEq, litFalse>> \o t :
     t \in {<<lexOr, kPlayed, opEq, litTrue>>, <<kwAnd, kPlayed, opEq>>,
            <<kwAnd, lexOpen, kPlayed, opEq, litTrue>>, <<kwAnd, kPlayed, opEq, litTrue, lexOr>>}}
UnstructuredQueries == LexemeStrings(MaxLexemes) \cup TrailingQueries

\* condition lists handed to the evaluator without the parser: the operator
\* token is any string
DirectConditions ==
  {<<[field |-> f, operator |-> opUnknown, value |-> v]>> :
     f \in FieldLexemes, v \in {litFalse, lexMaybe, sFoo, lex1999}}

\* items as the server sends them, with the attribute Name only, and items
\* that have a lower-case attribute name too, or only
NamedItems ==
  {kName :> PyStr(sX), fName :> PyStr(sX),
   (kName :> PyStr(sX)) @@ (fName :> PyStr(sFoo))}
\* WHERE Name operator value, the field written in either case
NameQueries ==
  {<<kwWhere, f, o, v>> :
     f \in {kName, fName}, o \in OperatorLexemes, v \in {lexX, lexFoo, lexOo, lex1999}}

\* '"F%"'
lexPercent == <<34, 70, 37, 34>>
\* '"F_o"'
lexUnderscore == <<34, 70, 95, 111, 34>>
\* '"Foox"'
lexFoox == <<34, 70, 111, 111, 120, 34>>
\* WHERE field LIKE "oo" AND field like value: the value is in the item's
\* value, has a wildcard of SQL in it, or has the item's value in it
LikeQueries ==
  {<<kwWhere, f, opLike, lexOo, kwAnd, f, lexLikeLower, v>> :
     f \in {kSeriesName, fName},
     v \in {lexFoo, lexPercent, lexUnderscore, lexFoox}}
LikeItems ==
  {(kSeriesName :> PyStr(s)) @@ (fName :> PyStr(s)) : s \in {sFoo, sX}}

\* the item the unstructured strings are tried on
PlainItem == (kName :> PyStr(sX)) @@ (fName :> PyStr(sX))

InitEval ==
  /\ \/ /\ query \in OneConditionQueries \cup ManyConditionQueries
        /\ item \in EvalItems
        /\ phase = "parse"
        /\ conditions = <<>>
     \/ /\ query \in UnstructuredQueries
        /\ item = PlainItem
        /\ phase = "parse"
        /\ conditions = <<>>
     \/ /\ query \in NameQueries
        /\ item \in NamedItems
        /\ phase = "parse"
        /\ conditions = <<>>
     \/ /\ query \in LikeQueries
        /\ item \in LikeItems
        /\ phase = "parse"
        /\ conditions = <<>>
     \/ /\ query = <<>>
        /\ item \in EvalItems
        /\ phase = "match"
        /\ conditions \in DirectConditions
  /\ parsed = FALSE
  /\ results = <<>>
  /\ matched = ""
  /\ without = <<>>
  /\ InitIdleRun

\* conditions = parse_query_conditions(query)
Parse ==
  /\ phase = "parse"
  /\ conditions' = parse_query_conditions(query)
  /\ parsed' = ParseSucceeds(query)
  /\ phase' = "match"
  /\ UNCHANGED <<item, query, results, matched, without, runVars>>

RemoveAt(s, i) == SubSeq(s, 1, i - 1) \o SubSeq(s, i + 1, Len(s))

\* matches_all_conditions(item, conditions), and beside it what each condition
\* gives alone and what the list gives with one condition removed
Match ==
  /\ phase = "match"
  /\ results' = [i \in 1..Len(conditions) |-> matches_condition(item, conditions[i])]
  /\ matched' = matches_all_conditions(item, conditions)
  /\ without' =
       [i \in 1..Len(conditions) |-> matches_all_conditions(item, RemoveAt(conditions, i))]
  /\ phase' = "done"
  /\ UNCHANGED <<item, query, conditions, parsed, runVars>>

NextEval == Parse \/ Match

SpecEval == InitEval /\ [][NextEval]_vars

\* ------------------------------------------------------------------------
\* Properties of the filter engine
\* ------------------------------------------------------------------------

\* C5: a collection whose filter string fails to parse has an empty desired
\* set: the filter engine matches no item.
ParseFailureMatchesNothing ==
  \A n \in Names :
    (PlanComputed(n) /\ ~ParseSucceeds(ConfigOf(n).query)) => log[n].desired = {}

\* C6: the list matches iff each of its conditions matches, and a list that
\* matches still matches with any one condition removed.
AndSemantics ==
  phase = "done" =>
    /\ matched = "True" <=> \A k \in 1..Len(conditions) : results[k] = "True"
    /\ matched = "True" => \A k \in 1..Len(conditions) : without[k] = "True"

\* C6: a list of three conditions does not match, and matches with one of
\* them removed
AndSemanticsWitness ==
  /\ phase = "done" /\ Len(conditions) = 3
  /\ matched = "False"
  /\ \E k \in 1..3 : without[k] = "True"

\* the item was never started: Played is false (or absent) and PlayCount is 0
\* (or absent)
ItemNeverStarted(it) ==
  LET ud == IF kUserData \in DOMAIN it THEN it[kUserData] ELSE EmptyDict
  IN  /\ ~(kPlayed \in DOMAIN ud /\ ud[kPlayed].b)
      /\ (kPlayCount \in DOMAIN ud => ud[kPlayCount].n = 0)

IsPlayedEquals(c, literal) ==
  Lower(c.field) = fPlayed /\ c.operator = opEq /\ Lower(c.value) = literal

\* C7: Played = false matches iff the item was never started, Played = true
\* matches iff it was not never started; so of the two conditions every
\* item matches exactly one.
PlayedDuality ==
  phase = "done" =>
    /\ \A k \in 1..Len(conditions) :
         /\ IsPlayedEquals(conditions[k], litFalse) =>
              (results[k] = "True" <=> ItemNeverStarted(item))
         /\ IsPlayedEquals(conditions[k], litTrue) =>
              (results[k] = "True" <=> ~ItemNeverStarted(item))
    /\ \A k, m \in 1..Len(conditions) :
         (IsPlayedEquals(conditions[k], litFalse) /\ IsPlayedEquals(conditions[m], litTrue)) =>
           /\ {results[k], results[m]} = {"True", "False"}

\* C7: an item that is not marked played and has a play count matches
\* Played = true and not Played = false
PlayedDualityWitness ==
  /\ phase = "done" /\ Len(conditions) = 2
  /\ IsPlayedEquals(conditions[1], litFalse) /\ IsPlayedEquals(conditions[2], litTrue)
  /\ kUserData \in DOMAIN item
  /\ kPlayed \in DOMAIN item[kUserData] /\ ~item[kUserData][kPlayed].b
  /\ kPlayCount \in DOMAIN item[kUserData] /\ item[kUserData][kPlayCount].n > 0
  /\ results = <<"False", "True">>

\* C8: an item without ProductionYear, or with ProductionYear 0, matches no
\* productionyear condition the parser produces.
YearSentinel ==
  phase = "done" /\ parsed =>
    \A k \in 1..Len(conditions) :
      (/\ Lower(conditions[k].field) = fProductionYear
       /\ (kProductionYear \notin DOMAIN item \/ item[kProductionYear] = PyInt(0)))
        => results[k] # "True"

\* C8: an item with ProductionYear 0 does not match ProductionYear != 1999
YearSentinelWitness ==
  /\ phase = "done" /\ parsed /\ Len(conditions) = 1
  /\ conditions[1] = [field |-> kProductionYear, operator |-> opNe, value |-> lex1999]
  /\ kProductionYear \in DOMAIN item /\ item[kProductionYear] = PyInt(0)
  /\ results = <<"False">>

\* C9: a played condition whose literal is neither true nor false does not
\* match and does not raise, whatever the operator.
PlayedOtherLiteralNeverMatches ==
  phase = "done" /\ parsed =>
    \A k \in 1..Len(conditions) :
      (Lower(conditions[k].field) = fPlayed
         /\ Lower(conditions[k].value) \notin {litTrue, litFalse})
        => results[k] = "False"

\* the whole string is WHERE condition (AND condition)*
Conforms(q) ==
  /\ Len(q) >= 4 /\ Len(q) % 4 = 0
  /\ IsKeyword(q[1], kwWhere)
  /\ \A k \in 0..((Len(q) \div 4) - 1) :
       /\ IsCondition(q, 4 * k + 2)
       /\ k > 0 => IsKeyword(q[4 * k + 1], kwAnd)

\* C10: the parser returns conditions only for a string that conforms to the
\* grammar as a whole.
ParserAcceptsOnlyGrammar ==
  (phase \in {"match", "done"} /\ query # <<>> /\ conditions # <<>>) => Conforms(query)

\* the field is none of played, seriesname, productionyear
IsOtherField(c) == Lower(c.field) \notin {fPlayed, fSeriesName, fProductionYear}

\* C11: for a condition on another field the left-hand value is the item's
\* attribute of the name the filter string has, '' when there is none, and
\* the right-hand value is the literal.
OtherFieldLookedUpVerbatim ==
  phase = "done" /\ parsed =>
    \A k \in 1..Len(conditions) :
      IsOtherField(conditions[k]) =>
        results[k] = ApplyOperator(Upper(conditions[k].operator),
                                   Get(item, conditions[k].field, PyStr(<<>>)),
                                   PyStr(conditions[k].value))

\* the string as written, in lower case and in upper case
CaseVariants(s) == {s, Lower(s), Upper(s)}

\* the item with its SeriesName in another case
ItemCaseVariants(it) ==
  IF kSeriesName \in DOMAIN it
  THEN {(kSeriesName :> PyStr(s)) @@ it : s \in CaseVariants(it[kSeriesName].s)}
  ELSE {it}

\* C12: the result of a seriesname condition is the same when the case of
\* the field token, of the literal or of the item's SeriesName is changed,
\* whatever the operator.
SeriesNameIgnoresCase ==
  phase = "done" =>
    \A k \in 1..Len(conditions) :
      Lower(conditions[k].field) = fSeriesName =>
        \A f \in CaseVariants(conditions[k].field), v \in CaseVariants(conditions[k].value),
           it \in ItemCaseVariants(item) :
          matches_condition(it, [field |-> f, operator |-> conditions[k].operator, value |-> v])
            = results[k]

\* C12: WHERE seriesname = "Foo" matches an item whose SeriesName is "foo"
SeriesNameIgnoresCaseWitness ==
  /\ phase = "done" /\ parsed
  /\ conditions = <<[field |-> fSeriesName, operator |-> opEq, value |-> sFoo]>>
  /\ kSeriesName \in DOMAIN item /\ item[kSeriesName] = PyStr(sFooLower)
  /\ results = <<"True">>

\* C13: a productionyear condition whose literal is no integer does not match
\* and does not raise: the filter pass goes on.
UncoercibleYearIsNonMatch ==
  phase = "done" /\ parsed =>
    \A k \in 1..Len(conditions) :
      (Lower(conditions[k].field) = fProductionYear /\ ~ParseInt(conditions[k].value).ok)
        => results[k] = "False"

\* C17: a condition whose operator token is none of =, !=, >, <, >=, <=, LIKE
\* does not match and does not raise, whatever the field, the literal and
\* the item.
UnknownOperatorNeverMatches ==
  phase = "done" =>
    \A k \in 1..Len(conditions) :
      Upper(conditions[k].operator) \notin OperatorSymbols => results[k] = "False"

\* part is a substring of whole
IsSubstring(part, whole) ==
  \E i \in 1..(Len(whole) - Len(part) + 1) : SubSeq(whole, i, i + Len(part) - 1) = part

\* C18: a LIKE condition matches iff the operator is applied (the field was
\* not ended by the year sentinel or by int() raising) and the string form of
\* the item's value has the string form of the literal in it, character by
\* character; LIKE itself does not raise.
LikeIsContainment ==
  phase = "done" =>
    \A k \in 1..Len(conditions) :
      Upper(conditions[k].operator) = opLike =>
        LET fv == FieldValues(item, Lower(conditions[k].field), conditions[k].value)
            applied == fv.raise = "" /\ ~fv.early
        IN  /\ results[k] = "True" <=>
                 (applied /\ IsSubstring(ToStr(fv.value), ToStr(fv.item_value)))
            /\ applied => results[k] \in {"True", "False"}

\* C18: SeriesName "Foo" matches LIKE "oo" and does not match like "Foox",
\* the literal that has the item's value in it
LikeIsContainmentWitness ==
  /\ phase = "done" /\ parsed
  /\ conditions = <<[field |-> kSeriesName, operator |-> opLike, value |-> <<111, 111>>],
                    [field |-> kSeriesName, operator |-> opLike, value |-> sFoo \o <<120>>]>>
  /\ item[kSeriesName] = PyStr(sFoo)
  /\ results = <<"True", "False">>

\* the IDs of the requests of the kind made for the collection before
\* request k, all of which succeeded
AppliedBefore(n, k, op) ==
  UNION {Range(calls[m].ids) : m \in {j \in MutationsOf(n) : j < k /\ calls[j].op = op}}

\* C15: when an add or remove request fails, no request is made for the
\* collection after it in the run (the batch is not sent again, no later
\* batch is sent), the batches before it stay applied, and the collection is
\* reported as failed: the run returns False.
PartialApplicationIsReported ==
  \A k \in 1..Len(calls) :
    (calls[k].op \in {"add", "remove"} /\ ~calls[k].ok) =>
      LET n == calls[k].name
      IN  /\ \A m \in MutationsOf(n) : m <= k
          /\ \A m \in MutationsOf(n) : m < k => calls[m].ok
          /\ boxsets[IdOf(n)].Items =
               (log[n].current \cup AppliedBefore(n, k, "add")) \ AppliedBefore(n, k, "remove")
          /\ log[n].state = "failed" /\ log[n].error = calls[k].op
          /\ has_errors
          /\ Returned => ~ReturnValue

\* C15: the second add batch of the first collection failed after the first
\* was applied; its removals were not made, and the run has returned
PartialApplicationIsReportedWitness ==
  /\ Returned
  /\ \E k \in 2..Len(calls) :
       /\ calls[k].op = "add" /\ calls[k].name = "A" /\ ~calls[k].ok
       /\ calls[k - 1].op = "add" /\ calls[k - 1].name = "A" /\ calls[k - 1].ok
       /\ Len(calls[k - 1].ids) = batch_size
       /\ Range(calls[k - 1].ids) \subseteq boxsets[IdOf("A")].Items
  /\ log["A"].remove # {}
  /\ log["B"].state = "synced"

\* the collection hit an error in this run
HitError(n) == log[n].state = "failed"

\* the flag and the failures at one moment: the flag is set iff a collection
\* hit an error, a failed request or a created collection without Id is an
\* error of its collection, and the function returns False iff the flag is set
ErrorFlagNow ==
  /\ has_errors <=> \E n \in Names : HitError(n)
  /\ \A n \in Names :
       /\ HitError(n) => log[n].error \in {"create", "no_id", "filter", "current", "add", "remove"}
       /\ (\E k \in MutationsOf(n) : ~calls[k].ok \/ calls[k].collection_id = NoId)
            => HitError(n)
       /\ log[n].state \in {"skipped", "unfiltered"} => log[n].error = ""
  /\ Returned => (ReturnValue <=> \A n \in Names : ~HitError(n))

\* within a run the flag, once set, stays set
ErrorFlagStays == (has_errors /\ pass' = pass) => has_errors'

\* C16: process_collections returns False iff at least one collection hit an
\* error (creation failed, no Id resolved, or syncing raised); the flag is
\* never cleared once set, and a collection skipped by a dry run or left
\* alone for its missing query or library does not set it.
ErrorFlagAggregates == []ErrorFlagNow /\ [][ErrorFlagStays]_vars

\* C16: a dry run that skipped a missing collection and left one without
\* query alone returns True, after a run that returned False
ErrorFlagAggregatesWitness ==
  /\ pass = 2 /\ previous["B"] = "failed"
  /\ dry_run /\ Returned /\ ReturnValue
  /\ log["A"].state = "unfiltered" /\ log["B"].state = "skipped"

\* C19: from the plan on, in every state of a run that is no dry run, the
\* collection holds every ID that is both current and desired and no ID that
\* is neither; add requests carry only desired IDs the collection did not
\* hold, remove requests only IDs it held that are not desired.
ContentStaysBetween ==
  \A n \in Names :
    (PlanComputed(n) /\ ~dry_run) =>
      /\ (log[n].current \cap log[n].desired) \subseteq boxsets[IdOf(n)].Items
      /\ boxsets[IdOf(n)].Items \subseteq (log[n].current \cup log[n].desired)
      /\ \A k \in MutationsOf(n) :
           /\ calls[k].op = "add" => Range(calls[k].ids) \subseteq log[n].desired \ log[n].current
           /\ calls[k].op = "remove" => Range(calls[k].ids) \subseteq log[n].current \ log[n].desired

\* C19: between two remove batches, after the additions: the collection
\* holds more than the desired set and less than the union
ContentStaysBetweenWitness ==
  /\ pc = "remove" /\ batch_start = batch_size /\ ~dry_run
  /\ LET n == collections_config[idx].name
     IN  /\ log[n].add # {}
         /\ log[n].current \cap log[n].desired # {}
         /\ boxsets[IdOf(n)].Items # log[n].desired
         /\ boxsets[IdOf(n)].Items # log[n].current \cup log[n].desired

\* C20: of the requests of a run for one collection every add comes before
\* every remove, the first remove comes after the whole list of additions
\* was sent, and when an add request has failed there is no remove request.
AddsBeforeRemoves ==
  \A n \in Names :
    /\ \A k, m \in MutationsOf(n) :
         (calls[k].op = "add" /\ calls[m].op = "remove") =>
           /\ k < m
           /\ calls[k].ok
           /\ AppliedBefore(n, m, "add") = log[n].add
    /\ (\E k \in MutationsOf(n) : calls[k].op = "add" /\ ~calls[k].ok) =>
         /\ \A m \in MutationsOf(n) : calls[m].op # "remove"
         /\ log[n].remove \subseteq boxsets[IdOf(n)].Items

\* C20: the first add batch of a collection failed; the run has returned and
\* the items to remove are still in the collection
AddsBeforeRemovesWitness ==
  /\ Returned
  /\ \E n \in Names :
       /\ log[n].state = "failed" /\ log[n].error = "add"
       /\ \A k \in MutationsOf(n) : calls[k].op = "add" /\ ~calls[k].ok
       /\ log[n].remove # {}
       /\ log[n].remove \subseteq boxsets[IdOf(n)].Items

\* the create requests of this run for the collection of the name
CreationsOf(n) == {k \in MutationsOf(n) : calls[k].op = "create"}

\* C21: in a run create_collection is called at most once for a name, only
\* in a run that is no dry run and for a name the server did not have when
\* the run started, and before every add and remove request of that
\* collection; a dry run skips a missing collection without a plan; every
\* add and remove request carries the collection's Id, which is not empty.
CreatedOnceAndFirst ==
  \A n \in Names :
    /\ Cardinality(CreationsOf(n)) <= 1
    /\ \A k \in CreationsOf(n) :
         /\ ~dry_run
         /\ IdOf(n) \notin DOMAIN at_start
         /\ \A m \in MutationsOf(n) : k <= m
    /\ (dry_run /\ IdOf(n) \notin DOMAIN at_start) =>
         /\ log[n].state \in {"pending", "skipped"}
         /\ log[n].desired = {} /\ log[n].add = {} /\ log[n].remove = {}
         /\ MutationsOf(n) = {}
    /\ \A k \in MutationsOf(n) :
         calls[k].op \in {"add", "remove"} =>
           /\ calls[k].collection_id # NoId
           /\ calls[k].collection_id = IdOf(n)
           /\ IdOf(n) \in DOMAIN at_start \/ CreationsOf(n) # {}

\* C21: a collection the server did not have was created and then filled,
\* and the create request that gave no Id was followed by no other request
CreatedOnceAndFirstWitness ==
  /\ Returned /\ ~dry_run
  /\ DOMAIN at_start = {}
  /\ \E k \in CreationsOf("A") : calls[k].ok /\ calls[k].collection_id = NoId
  /\ Cardinality(MutationsOf("A")) = 1
  /\ \E k \in CreationsOf("B") : calls[k].ok /\ calls[k].collection_id = IdOf("B")
  /\ \E m \in MutationsOf("B") : calls[m].op = "add" /\ calls[m].ok
  /\ log["B"].state = "synced"

\* ------------------------------------------------------------------------
\* add_to_collection and remove_from_collection on lists of every length
\* ------------------------------------------------------------------------

\* the first n movie IDs, as a list
MovieList(n) == [k \in 1..n |-> MovieId(k)]

\* one of the two functions is called for the first collection with a list
\* of 0 to MovieCount IDs: to fill the empty collection, or to take the IDs
\* out of the collection that holds every movie
InitBatch ==
  /\ collections_config \in MovieConfigs
  /\ dry_run = FALSE
  /\ pc \in {"add", "remove"}
  /\ idx = 1
  /\ \E n \in 0..MovieCount : item_ids = MovieList(n)
  /\ batch_start = 0
  /\ collection_id = IdOf("A")
  /\ boxsets = (IdOf("A") :> [Name |-> "A",
                              Items |-> IF pc = "add" THEN {} ELSE Range(MovieList(MovieCount))])
  /\ desired_item_ids = IF pc = "add" THEN Range(item_ids)
                        ELSE Range(MovieList(MovieCount)) \ Range(item_ids)
  /\ items_to_add = IF pc = "add" THEN Range(item_ids) ELSE {}
  /\ items_to_remove = IF pc = "remove" THEN Range(item_ids) ELSE {}
  /\ existing_collections = {[Name |-> "A", Id |-> IdOf("A")]}
  /\ existing_names = {"A"}
  /\ has_errors = FALSE
  /\ pass = 1
  /\ calls = <<>>
  /\ log = [EmptyLog EXCEPT !["A"].desired = desired_item_ids,
                            !["A"].current = boxsets[IdOf("A")].Items,
                            !["A"].add = items_to_add,
                            !["A"].remove = items_to_remove]
  /\ previous = [n \in Names |-> ""]
  /\ at_start = boxsets
  /\ InitIdleEval

NextBatch == AddBatch \/ RemoveBatch

SpecBatch == InitBatch /\ [][NextBatch]_vars

\* the IDs of the requests, one after the other
RECURSIVE Sent(_)
Sent(cs) == IF cs = <<>> THEN <<>> ELSE Head(cs).ids \o Sent(Tail(cs))

\* ceil(n / batch_size)
BatchCount(n) == (n + batch_size - 1) \div batch_size

\* one step of either function: each request made so far carries 1 to
\* batch_size IDs, the IDs of the requests, in call order, are the front of
\* the list, and they are the whole list, in ceil(n / batch_size) requests,
\* when the function returns without a failed request
BatchesSoFar ==
  pc \in {"add", "remove"} =>
    LET sent == Sent(calls')
    IN  /\ \A k \in 1..Len(calls') :
             /\ calls'[k].op = pc
             /\ Len(calls'[k].ids) \in 1..batch_size
        /\ Len(sent) <= Len(item_ids)
        /\ sent = SubSeq(item_ids, 1, Len(sent))
        /\ (pc' # pc /\ \A k \in 1..Len(calls') : calls'[k].ok) =>
             /\ sent = item_ids
             /\ Len(calls') = BatchCount(Len(item_ids))

\* C14: add_to_collection and remove_from_collection send a list of any
\* length in consecutive batches of at most batch_size IDs, one request per
\* batch: the batches in call order are the list, every ID is in exactly one
\* request, ceil(n / batch_size) requests are made when all succeed, and
\* none for the empty list.
BatchesCoverTheList == [][BatchesSoFar]_vars

\* C14: a list of more than two batches was removed in three requests, the
\* last one smaller than the others
BatchesCoverTheListWitness ==
  /\ pc = "collection" /\ log["A"].state = "synced"
  /\ Len(calls) = 3
  /\ \A k \in 1..3 : calls[k].op = "remove" /\ calls[k].ok
  /\ Len(calls[3].ids) < batch_size
  /\ boxsets[IdOf("A")].Items = {}

====
